---- MODULE Spec2Model ----
(***************************************************************************)
(* Model of "Classification Algorithms .py": the decision tree, the random *)
(* forest and the Gaussian naive Bayes classifier with its k-fold          *)
(* evaluation harness.                                                     *)
(*                                                                         *)
(* A DataFrame is a record [columns, rows]: the ordered column names and   *)
(* the rows in index order, each row the sequence of its cell values in    *)
(* column order.  fit re-merges the label as a last column "quality".      *)
(* Feature values stand for the floats 1.0, 2.0, ...; gini and info_gain   *)
(* are computed in exact rational arithmetic (pairs <<num, den>> in lowest *)
(* terms), so `gain == 0` is decided without rounding.                     *)
(* Python's None is the empty tuple << >> for an optional object and the   *)
(* number None for an optional label.                                      *)
(***************************************************************************)
EXTENDS Integers, Sequences, FiniteSets, TLC

\* ---------------------------------------------------------------- bounds
\* the tables handed to DecisionTree.fit: at most MaxRows rows over the
\* columns TreeColumns (a prefix of them), cells in Values, labels in Labels
MaxRows == 3
TreeColumns == <<"a", "b">>
Values == {1, 2}
Labels == {0, 1, 2}
\* the labels of the tables whose fit is followed call by call
BuildLabels == {0, 1}
\* the feature lists a DecisionTree is constructed with (besides none):
\* "b" is absent from a one-column table and restricts a two-column one
FeatureLists == {<<"b">>}
\* the tables handed to RandomForest.fit: at most MaxForestRows rows over a
\* prefix of ForestColumns, cells in Values, labels in ForestLabels
MaxForestRows == 1
ForestColumns == <<"a", "b", "c">>
ForestLabels == {0, 1}
\* the values of the kwargs n_trees and n_feature_splits (besides absent)
Counts == {0, 1, 2, 4}
\* the datasets handed to evaluate_algorithm: at most MaxData rows of one
\* feature in NBValues and a class in Classes, cut into at most MaxFolds folds
MaxData == 3
MaxFolds == 3
NBValues == {1, 5}
Classes == {0, 1}

None == -1

\* ------------------------------------------------------------- utilities
Range(s) == {s[i] : i \in 1..Len(s)}

RECURSIVE SeqSum(_)
SeqSum(s) == IF s = <<>> THEN 0 ELSE Head(s) + SeqSum(Tail(s))

\* the concatenation of a sequence of sequences
RECURSIVE Flatten(_)
Flatten(blocks) == IF blocks = <<>> THEN <<>> ELSE Head(blocks) \o Flatten(Tail(blocks))

\* position of name c in the sequence cols (0 when absent)
IndexOf(cols, c) ==
    IF \E i \in 1..Len(cols) : cols[i] = c
    THEN CHOOSE i \in 1..Len(cols) : cols[i] = c /\ \A j \in 1..(i-1) : cols[j] # c
    ELSE 0

\* the distinct elements of s in order of first appearance (Series.unique)
RECURSIVE unique(_)
unique(s) ==
    IF s = <<>> THEN <<>>
    ELSE LET init == unique(SubSeq(s, 1, Len(s) - 1))
             last == s[Len(s)]
         IN  IF last \in Range(init) THEN init ELSE Append(init, last)

\* ------------------------------------------------------ exact rationals
RECURSIVE GCD(_, _)
GCD(a, b) == IF b = 0 THEN a ELSE GCD(b, a % b)

Abs(a) == IF a < 0 THEN 0 - a ELSE a

Rat(n, d) ==
    LET g == GCD(Abs(n), d) IN IF g = 0 THEN <<0, 1>> ELSE <<n \div g, d \div g>>

RatSub(p, q) == Rat(p[1] * q[2] - q[1] * p[2], p[2] * q[2])
RatMul(p, q) == Rat(p[1] * q[1], p[2] * q[2])
RatGeq(p, q) == p[1] * q[2] >= q[1] * p[2]
RatZero == <<0, 1>>
RatOne == <<1, 1>>

\* ------------------------------------------------- DataFrame primitives
Column(data, feature) ==
    LET k == IndexOf(data.columns, feature)
    IN  [i \in 1..Len(data.rows) |-> data.rows[i][k]]

quality(data) == Column(data, "quality")

\* X.copy() followed by data.insert(len(data.columns), "quality", Y)
Merge(X, Y) ==
    [columns |-> Append(X.columns, "quality"),
     rows    |-> [i \in 1..Len(X.rows) |-> Append(X.rows[i], Y[i])]]

\* ------------------------------------------------------------ label_counts
\* the dict of the source as a sequence of <<label, count>> in insertion order
label_counts(data) ==
    LET q == quality(data)
        labels == unique(q)
    IN  [k \in 1..Len(labels) |->
            <<labels[k], Cardinality({i \in 1..Len(q) : q[i] = labels[k]})>>]

\* -------------------------------------------------------------------- gini
RECURSIVE giniLoop(_, _, _)
giniLoop(counts, n, impurity) ==
    IF counts = <<>> THEN impurity
    ELSE LET probability == Rat(Head(counts)[2], n)
         IN  giniLoop(Tail(counts), n,
                      RatSub(impurity, RatMul(probability, probability)))

gini(data) == giniLoop(label_counts(data), Len(data.rows), RatOne)

\* --------------------------------------------------------------- info_gain
info_gain(left_branch, right_branch, current_uncertainty) ==
    LET nl == Len(left_branch.rows)
        nr == Len(right_branch.rows)
        probability == Rat(nl, nl + nr)
    IN  RatSub(RatSub(current_uncertainty,
                      RatMul(probability, gini(left_branch))),
               RatMul(RatSub(RatOne, probability), gini(right_branch)))

\* ------------------------------------------------------------------- split
RECURSIVE FilterRows(_, _, _, _)
FilterRows(rows, k, split_point, keep_geq) ==
    IF rows = <<>> THEN <<>>
    ELSE LET rest == FilterRows(Tail(rows), k, split_point, keep_geq)
         IN  IF (Head(rows)[k] >= split_point) = keep_geq
             THEN <<Head(rows)>> \o rest
             ELSE rest

\* a split whose false branch keeps every row
split_keep(data, feature, split_point) ==
    <<[columns |-> data.columns,
       rows    |-> FilterRows(data.rows, IndexOf(data.columns, feature),
                              split_point, TRUE)],
      data>>

\* split with the comparison `>` in place of `>=`
split_gt(data, feature, split_point) ==
    LET k == IndexOf(data.columns, feature)
    IN  <<[columns |-> data.columns,
           rows    |-> FilterRows(data.rows, k, split_point + 1, TRUE)],
          [columns |-> data.columns,
           rows    |-> FilterRows(data.rows, k, split_point + 1, FALSE)]>>

split(data, feature, split_point) ==
    LET k == IndexOf(data.columns, feature)
    IN  <<[columns |-> data.columns,
           rows    |-> FilterRows(data.rows, k, split_point, TRUE)],
          [columns |-> data.columns,
           rows    |-> FilterRows(data.rows, k, split_point, FALSE)]>>

\* -------------------------------------------------------------------- Node
\* the label of a leaf: the only label, or the first label (in label_counts
\* order) whose count exceeds every earlier count; None over no rows
RECURSIVE MostLoop(_, _, _)
MostLoop(counts, most, label) ==
    IF counts = <<>> THEN label
    ELSE IF Head(counts)[2] > most
         THEN MostLoop(Tail(counts), Head(counts)[2], Head(counts)[1])
         ELSE MostLoop(Tail(counts), most, label)

LeafLabel(predictions) ==
    LET counts == label_counts(predictions)
    IN  IF Len(counts) = 1 THEN quality(predictions)[1]
        ELSE MostLoop(counts, 0, None)

Leaf(predictions) ==
    [is_leaf |-> TRUE, predictions |-> predictions, label |-> LeafLabel(predictions)]

Decision(true_branch, false_branch, split_point) ==
    [is_leaf |-> FALSE, true_branch |-> true_branch,
     false_branch |-> false_branch, split_point |-> split_point]

\* ------------------------------------------------- DecisionTree.__best_split
\* the (feature, value) pairs in the order the two nested loops visit them;
\* features is << >> (None) or <<list>> (the restricted feature list)
RECURSIVE Candidates(_, _, _)
Candidates(data, features, k) ==
    IF k > Len(data.columns) THEN <<>>
    ELSE LET feature == data.columns[k]
             rest == Candidates(data, features, k + 1)
         IN  IF feature = "quality" THEN rest
             ELSE IF features # <<>> /\ feature \notin Range(features[1]) THEN rest
             ELSE LET values == unique(Column(data, feature))
                  IN  [i \in 1..Len(values) |-> <<feature, values[i]>>] \o rest

\* the inner loop body with the comparison `>` in place of `>=`
BestStep_gt(data, current_uncertainty, best, cand) ==
    LET branches == split(data, cand[1], cand[2])
    IN  IF Len(branches[1].rows) = 0 \/ Len(branches[2].rows) = 0 THEN best
        ELSE LET gain == info_gain(branches[1], branches[2], current_uncertainty)
             IN  IF RatGeq(gain, best[2]) /\ gain # best[2]
                 THEN <<cand, gain>> ELSE best

\* one pass of the inner loop body: keep or replace the best split so far
BestStep(data, current_uncertainty, best, cand) ==
    LET branches == split(data, cand[1], cand[2])
        true_branch == branches[1]
        false_branch == branches[2]
    IN  IF Len(true_branch.rows) = 0 \/ Len(false_branch.rows) = 0 THEN best
        ELSE LET gain == info_gain(true_branch, false_branch, current_uncertainty)
             IN  IF RatGeq(gain, best[2]) THEN <<cand, gain>> ELSE best

RECURSIVE BestLoop(_, _, _, _)
BestLoop(data, current_uncertainty, best, cands) ==
    IF cands = <<>> THEN best
    ELSE BestLoop(data, current_uncertainty,
                  BestStep(data, current_uncertainty, best, Head(cands)),
                  Tail(cands))

\* returns <<best_split_point, best_info_gain>>; best_split_point << >> is None
best_split(features, data) ==
    BestLoop(data, gini(data), <<<<>>, RatZero>>, Candidates(data, features, 1))

\* ------------------------------------------------- DecisionTree.__build_tree
RECURSIVE build_tree(_, _)
build_tree(features, data) ==
    LET best == best_split(features, data)
        split_point == best[1]
        gain == best[2]
    IN  IF gain = RatZero THEN Leaf(data)
        ELSE LET branches == split(data, split_point[1], split_point[2])
             IN  Decision(build_tree(features, branches[1]),
                          build_tree(features, branches[2]),
                          split_point)

\* --------------------------------------------------- DecisionTree.__classify
\* row is one row of X, whose columns are cols
\* classify with the comparison `>` in place of `>=`
RECURSIVE classify_gt(_, _, _)
classify_gt(cols, row, node) ==
    IF node.is_leaf THEN node.label
    ELSE IF row[IndexOf(cols, node.split_point[1])] > node.split_point[2]
         THEN classify_gt(cols, row, node.true_branch)
         ELSE classify_gt(cols, row, node.false_branch)

RECURSIVE classify(_, _, _)
classify(cols, row, node) ==
    IF node.is_leaf THEN node.label
    ELSE LET feature == node.split_point[1]
             value == node.split_point[2]
         IN  IF row[IndexOf(cols, feature)] >= value
             THEN classify(cols, row, node.true_branch)
             ELSE classify(cols, row, node.false_branch)

\* ------------------------------------------------------ DecisionTree methods
\* a DecisionTree object: features, tree and original_data, each << >> for None
DT_new(features) == [features |-> features, tree |-> <<>>, original_data |-> <<>>]

\* the exception fit raises on (X, Y), "" when it returns
DT_fit_raises(self, X, Y) ==
    IF self.features # <<>>
       /\ \E f \in Range(self.features[1]) : f \notin Range(Merge(X, Y).columns)
    THEN "KeyError" ELSE ""

\* the object after fit(X, Y), returned or raised
DT_fit(self, X, Y) ==
    IF DT_fit_raises(self, X, Y) # ""
    THEN [self EXCEPT !.original_data = <<X, Y>>]
    ELSE [self EXCEPT !.original_data = <<X, Y>>,
                      !.tree = <<build_tree(self.features, Merge(X, Y))>>]

DT_predict_raises(self, X) ==
    IF self.tree = <<>> /\ Len(X.rows) > 0 THEN "TypeError" ELSE ""

DT_predict(self, X) ==
    [i \in 1..Len(X.rows) |-> classify(X.columns, X.rows[i], self.tree[1])]

\* score(Y, predictions=...): the fraction correct / total
score(Y, predictions) ==
    Rat(Cardinality({i \in 1..Len(Y) : Y[i] = predictions[i]}), Len(Y))

\* ------------------------------------------------------ RandomForest.__init__
DefaultTrees == 5
DefaultFeatureSplits == 5

\* kwargs n_trees and n_feature_splits: << >> when absent, <<n>> when given
RF_new(kw_n_trees, kw_n_feature_splits) ==
    LET n_trees == IF kw_n_trees = <<>> THEN DefaultTrees ELSE kw_n_trees[1]
        n_feature_splits == IF kw_n_feature_splits = <<>> THEN DefaultFeatureSplits
                            ELSE kw_n_feature_splits[1]
        coerce == n_trees # n_feature_splits /\ n_feature_splits # 0
    IN  [trees |-> <<>>, original_data |-> <<>>, splits |-> <<>>,
         n_trees |-> IF coerce /\ ~(n_trees < n_feature_splits)
                     THEN n_feature_splits ELSE n_trees,
         n_feature_splits |-> IF coerce /\ n_trees < n_feature_splits
                              THEN n_trees ELSE n_feature_splits]

\* ---------------------------------------------- RandomForest.__split_features
\* the loop over the columns from the k-th on: returns <<splits, buffer>>
RECURSIVE SplitLoop(_, _, _, _, _, _)
SplitLoop(columns, k, n_per_column, i, buffer, splits) ==
    IF k > Len(columns) THEN <<splits, buffer>>
    ELSE LET column == columns[k]
         IN  IF column = "quality"
             THEN SplitLoop(columns, k + 1, n_per_column, i, buffer, splits)
             ELSE IF i # n_per_column
             THEN SplitLoop(columns, k + 1, n_per_column, i + 1,
                            Append(buffer, column), splits)
             ELSE SplitLoop(columns, k + 1, n_per_column, 1,
                            <<column>>, Append(splits, buffer))

\* [raised, splits]: the exception raised ("" when none) and self.splits after
\* the call.  `splits[-1] + buffer` raises on an empty list; its result is
\* appended to the copy `splits[:-1]`, so splits itself is left as the loop
\* built it.
split_features(self, X) ==
    IF self.n_feature_splits = 0 THEN [raised |-> "", splits |-> self.splits]
    ELSE LET n_per_column == Len(X.columns) \div self.n_feature_splits
             done == SplitLoop(X.columns, 1, n_per_column, 0, <<>>, <<>>)
             splits == done[1]
         IN  IF splits = <<>> THEN [raised |-> "IndexError", splits |-> self.splits]
             ELSE IF Len(splits) # self.n_feature_splits
             THEN [raised |-> "IndexError", splits |-> self.splits]
             ELSE [raised |-> "", splits |-> <<splits>>]

\* ---------------------------------------------------------- RandomForest.fit
\* the trees the loop `for i in range(self.n_trees)` appends
RF_trees(self, splits, X, Y) ==
    [i \in 1..self.n_trees |->
        DT_fit(DT_new(IF Len(splits[1]) # 0 THEN <<splits[1][i]>> ELSE <<>>), X, Y)]

RF_fit_raises(self, X, Y) ==
    LET sf == split_features(self, X)
    IN  IF sf.raised # "" THEN sf.raised
        ELSE IF self.n_trees >= 1 /\ sf.splits = <<>> THEN "TypeError"
        ELSE ""

\* the object after fit(X, Y), returned or raised: original_data and trees are
\* assigned before __split_features is called
RF_fit(self, X, Y) ==
    LET sf == split_features(self, X)
        started == [self EXCEPT !.original_data = <<X, Y>>, !.trees = <<<<>>>>]
    IN  IF sf.raised # "" THEN started
        ELSE IF self.n_trees >= 1 /\ sf.splits = <<>> THEN started
        ELSE [started EXCEPT !.splits = sf.splits,
                             !.trees = <<RF_trees(self, sf.splits, X, Y)>>]

\* ------------------------------------------------------ RandomForest.predict
\* result_counts: <<prediction, count>> in the order the predictions first occur
result_counts(votes) ==
    LET keys == unique(votes)
    IN  [k \in 1..Len(keys) |->
            <<keys[k], Cardinality({t \in 1..Len(votes) : votes[t] = keys[k]})>>]

\* the vote with `>=`: the last key with the highest count wins
vote_last(votes) ==
    LET counts == result_counts(votes)
        best == {k \in 1..Len(counts) : \A j \in 1..Len(counts) : counts[k][2] >= counts[j][2]}
    IN  IF counts = <<>> THEN None
        ELSE counts[CHOOSE k \in best : \A j \in best : k >= j][1]

\* the loop over result_counts with `>`: the first key with the highest count
vote(votes) == MostLoop(result_counts(votes), 0, None)

RF_predict_raises(self, X) == IF self.trees = <<>> THEN "TypeError" ELSE ""

\* tree_results[t][i]: the prediction of tree t for row i
tree_results(self, X) ==
    [t \in 1..Len(self.trees[1]) |-> DT_predict(self.trees[1][t], X)]

RF_predict(self, X) ==
    LET results == tree_results(self, X)
    IN  [i \in 1..Len(X.rows) |-> vote([t \in 1..Len(results) |-> results[t][i]])]

\* ------------------------------------------------- naive Bayes: float values
\* mean and variance are exact rationals; a standard deviation is kept as its
\* square, so `stdev == 0` is decided exactly.  A density or a class score is
\* a fixed-point number of Scale units per 1 (exp, sqrt and pi are rounded).
Scale == 10 * 10 * 10

RatAdd(p, q) == Rat(p[1] * q[2] + q[1] * p[2], p[2] * q[2])
RatDiv(p, q) == Rat(p[1] * q[2], p[2] * q[1])

RECURSIVE Newton(_, _)
Newton(n, x) == LET y == (x + n \div x) \div 2 IN IF y >= x THEN x ELSE Newton(n, y)

\* floor of the square root of n
ISqrt(n) == IF n = 0 THEN 0 ELSE Newton(n, n)

RECURSIVE TimesExpMinus1(_, _)
TimesExpMinus1(r, k) ==
    IF k = 0 \/ r = 0 THEN r ELSE TimesExpMinus1((r * 368) \div Scale, k - 1)

\* Scale * exp(-q) for a rational q >= 0
ExpNeg(q) ==
    LET k  == q[1] \div q[2]
        f  == ((q[1] % q[2]) * Scale) \div q[2]
        t2 == (f * f) \div (2 * Scale)
        t3 == (t2 * f) \div (3 * Scale)
        t4 == (t3 * f) \div (4 * Scale)
        t5 == (t4 * f) \div (5 * Scale)
        t6 == (t5 * f) \div (6 * Scale)
    IN  TimesExpMinus1(Scale - f + t2 - t3 + t4 - t5 + t6, k)

\* --------------------------------------------------------- separate_by_class
\* a dataset is a sequence of rows, a row the sequence of its feature values
\* followed by its class value; the dict is a sequence of <<class, rows>>
\* in insertion order
ClassOf(vector) == vector[Len(vector)]

RowsOfClass(dataset, class_value) ==
    LET idx == {i \in 1..Len(dataset) : ClassOf(dataset[i]) = class_value}
        nth(k) == CHOOSE i \in idx : Cardinality({j \in idx : j < i}) = k - 1
    IN  [k \in 1..Cardinality(idx) |-> dataset[nth(k)]]

separate_by_class(dataset) ==
    LET classes == unique([i \in 1..Len(dataset) |-> ClassOf(dataset[i])])
    IN  [k \in 1..Len(classes) |-> <<classes[k], RowsOfClass(dataset, classes[k])>>]

\* -------------------------------------------------------------- mean, stdev
mean(numbers) == Rat(SeqSum(numbers), Len(numbers))

\* float(len(numbers) - 1) is 0.0 for a single number: ZeroDivisionError
stdev_raises(numbers) == Len(numbers) - 1 = 0

\* the square of the value returned: sum((x - avg)**2) / (len - 1)
stdev(numbers) ==
    LET n == Len(numbers)
        total == SeqSum(numbers)
        squares == [i \in 1..n |-> (n * numbers[i] - total) * (n * numbers[i] - total)]
    IN  Rat(SeqSum(squares), n * n * (n - 1))

\* --------------------------------------------------------- summarize_dataset
\* zip(*dataset): the columns, the class column included
Columns(dataset) ==
    [c \in 1..Len(dataset[1]) |-> [i \in 1..Len(dataset) |-> dataset[i][c]]]

summarize_dataset_raises(dataset) ==
    \E c \in 1..Len(dataset[1]) : stdev_raises(Columns(dataset)[c])

\* (mean, stdev, count) per feature column; the class column's entry is deleted
summarize_dataset(dataset) ==
    LET columns == Columns(dataset)
    IN  [c \in 1..(Len(columns) - 1) |->
            <<mean(columns[c]), stdev(columns[c]), Len(columns[c])>>]

\* --------------------------------------------------------- summarize_by_class
summarize_by_class_raises(dataset) ==
    LET separated == separate_by_class(dataset)
    IN  \E k \in 1..Len(separated) : summarize_dataset_raises(separated[k][2])

summarize_by_class(dataset) ==
    LET separated == separate_by_class(dataset)
    IN  [k \in 1..Len(separated) |->
            <<separated[k][1], summarize_dataset(separated[k][2])>>]

\* ------------------------------------------------------ calculate_probability
\* 2 * stdev**2 is 0.0 for a zero stdev: ZeroDivisionError
calculate_probability_raises(x, mu, sd) == sd[1] = 0

calculate_probability(x, mu, sd) ==
    LET d == RatSub(Rat(x, 1), mu)
        exponent == ExpNeg(RatDiv(RatMul(d, d), RatMul(<<2, 1>>, sd)))
    IN  (Scale * exponent) \div ISqrt((6283185 * sd[1]) \div sd[2])

\* ---------------------------------------------- calculate_class_probabilities
calculate_class_probabilities_raises(summaries, row) ==
    \E k \in 1..Len(summaries) : \E i \in 1..Len(summaries[k][2]) :
        calculate_probability_raises(row[i], summaries[k][2][i][1], summaries[k][2][i][2])

RECURSIVE ScoreLoop(_, _, _, _)
ScoreLoop(class_summaries, row, i, probability) ==
    IF i > Len(class_summaries) THEN probability
    ELSE ScoreLoop(class_summaries, row, i + 1,
            (probability * calculate_probability(row[i], class_summaries[i][1],
                                                 class_summaries[i][2])) \div Scale)

\* the dict of class scores as a sequence of <<class, score>> in summaries order
calculate_class_probabilities(summaries, row) ==
    LET total_rows == SeqSum([k \in 1..Len(summaries) |-> summaries[k][2][1][3]])
    IN  [k \in 1..Len(summaries) |->
            <<summaries[k][1],
              ScoreLoop(summaries[k][2], row, 1,
                        (summaries[k][2][1][3] * Scale) \div total_rows)>>]

\* -------------------------------------------------------------------- predict
\* the loop of predict with the comparison `>=` in place of `>`
RECURSIVE PredictLoop_geq(_, _, _)
PredictLoop_geq(probabilities, best_label, best_prob) ==
    IF probabilities = <<>> THEN best_label
    ELSE IF best_label = None \/ Head(probabilities)[2] >= best_prob
         THEN PredictLoop_geq(Tail(probabilities), Head(probabilities)[1],
                              Head(probabilities)[2])
         ELSE PredictLoop_geq(Tail(probabilities), best_label, best_prob)

RECURSIVE PredictLoop(_, _, _)
PredictLoop(probabilities, best_label, best_prob) ==
    IF probabilities = <<>> THEN best_label
    ELSE IF best_label = None \/ Head(probabilities)[2] > best_prob
         THEN PredictLoop(Tail(probabilities), Head(probabilities)[1], Head(probabilities)[2])
         ELSE PredictLoop(Tail(probabilities), best_label, best_prob)

predict(summaries, row) ==
    PredictLoop(calculate_class_probabilities(summaries, row), None, -1)

\* ---------------------------------------------------------------- naive_bayes
naive_bayes_raises(train, test) ==
    IF summarize_by_class_raises(train) THEN "ZeroDivisionError"
    ELSE IF \E r \in 1..Len(test) :
                calculate_class_probabilities_raises(summarize_by_class(train), test[r])
    THEN "ZeroDivisionError"
    ELSE ""

naive_bayes(train, test) ==
    LET summarize == summarize_by_class(train)
    IN  [r \in 1..Len(test) |-> predict(summarize, test[r])]

\* ------------------------------------------------------------ accuracy_metric
\* the percentage correct / len(actual) * 100.0, as an exact rational
accuracy_metric(actual, predicted) ==
    Rat(Cardinality({i \in 1..Len(actual) : actual[i] = predicted[i]}) * 100,
        Len(actual))

\* ----------------------------------------------------- cross_validation_split
\* a pop that hands out the item and leaves it in the list
pop_keep(list, index) == [item |-> list[index], rest |-> list]

\* list.pop(index), index counted from 1: the item and the list without it
pop(list, index) ==
    [item |-> list[index],
     rest |-> SubSeq(list, 1, index - 1) \o SubSeq(list, index + 1, Len(list))]

\* list(dataset): a new list of the same row objects; pos tells the rows apart
Copy(dataset) == [i \in 1..Len(dataset) |-> [pos |-> i, row |-> dataset[i]]]

fold_size(dataset, n_folds) == Len(dataset) \div n_folds

\* the rows of a list of row objects
Rows(list) == [i \in 1..Len(list) |-> list[i].row]

\* --------------------------------------------------------- evaluate_algorithm
\* train_set = list(folds); train_set.remove(fold): without the first fold
\* that is equal to fold, row for row
Remove(folds, fold) ==
    LET at == CHOOSE j \in 1..Len(folds) :
                 /\ Rows(folds[j]) = Rows(fold)
                 /\ \A h \in 1..(j - 1) : Rows(folds[h]) # Rows(fold)
    IN  SubSeq(folds, 1, at - 1) \o SubSeq(folds, at + 1, Len(folds))

\* sum(train_set, [])
Concat(folds) == Flatten(folds)

\* the copies of the fold's rows with the class set to None
TestSet(fold) ==
    [i \in 1..Len(fold) |-> [fold[i].row EXCEPT ![Len(fold[i].row)] = None]]

Actual(fold) == [i \in 1..Len(fold) |-> ClassOf(fold[i].row)]

\* the exception the body of the loop raises for fold, "" when none
EvalFoldRaises(folds, fold) ==
    LET train_set == Rows(Concat(Remove(folds, fold)))
    IN  IF naive_bayes_raises(train_set, TestSet(fold)) # ""
        THEN naive_bayes_raises(train_set, TestSet(fold))
        ELSE IF Len(fold) = 0 THEN "ZeroDivisionError"
        ELSE ""

\* ------------------------------------------------------------------ state
VARIABLES
    dt,        \* the DecisionTree object
    rf,        \* the RandomForest object
    cv,        \* the frame of evaluate_algorithm / cross_validation_split
    bt,        \* the running DecisionTree.fit: the call stack of __build_tree
    last       \* the last call: [op, X, raised, returned]

vars == <<dt, rf, cv, bt, last>>

NoCall == [op |-> "none", X |-> <<>>, raised |-> "", returned |-> <<>>]
Idle == <<>>
\* no fit is running: no frame of __build_tree, nothing returned
NoBuild == [stack |-> <<>>, ret |-> <<>>, step |-> <<>>]
NoTree == DT_new(<<>>)
NoForest == RF_new(<<>>, <<>>)

\* the (X, Y) pairs over the columns cols with n rows
Frames(cols, n) ==
    {[columns |-> SubSeq(cols, 1, F), rows |-> r] :
        F \in {Len(cols)}, r \in [1..n -> [1..Len(cols) -> Values]]}

\* the scenario table: x = [1,1,2,2,3,3], y = [0,0,1,1,1,1]
ToyX == [columns |-> <<"a">>, rows |-> <<<<1>>, <<1>>, <<2>>, <<2>>, <<3>>, <<3>>>>]
ToyY == <<0, 0, 1, 1, 1, 1>>

\* a separable table no single threshold improves: the label is a XOR b
XorX == [columns |-> <<"a", "b">>, rows |-> <<<<1, 1>>, <<1, 2>>, <<2, 1>>, <<2, 2>>>>]
XorY == <<0, 1, 1, 0>>

\* two thresholds of one column with the same gain, the values met in
\* ascending and in descending order
PeakX == [columns |-> <<"a">>, rows |-> <<<<1>>, <<2>>, <<3>>>>]
PeakRevX == [columns |-> <<"a">>, rows |-> <<<<3>>, <<2>>, <<1>>>>]
PeakY == <<0, 1, 0>>

Scenarios ==
    {[X |-> ToyX, Y |-> ToyY], [X |-> XorX, Y |-> XorY],
     [X |-> PeakX, Y |-> PeakY], [X |-> PeakRevX, Y |-> PeakY]}

\* ------------------------------------------------- DecisionTree state machine
TreeInit ==
    /\ dt = NoTree
    /\ rf = NoForest
    /\ cv = Idle
    /\ bt = NoBuild
    /\ last = NoCall

\* DecisionTree(**kwargs): with or without a features list
TreeConstruct ==
    /\ \E features \in {<<>>} \cup {<<fl>> : fl \in FeatureLists} :
          dt' = DT_new(features)
    /\ last' = [NoCall EXCEPT !.op = "init"]
    /\ UNCHANGED <<rf, cv, bt>>

TreeFitCall(X, Y) ==
    /\ dt.original_data = <<>>
    /\ dt' = DT_fit(dt, X, Y)
    /\ last' = [op |-> "fit", X |-> X, raised |-> DT_fit_raises(dt, X, Y),
                returned |-> <<>>]
    /\ UNCHANGED <<rf, cv, bt>>

\* fit(X, Y) on a freshly constructed tree (every tree of the source is fitted once)
TreeFit ==
    \E F \in 1..Len(TreeColumns), n \in 1..MaxRows :
        \E X \in Frames(SubSeq(TreeColumns, 1, F), n), Y \in [1..n -> Labels] :
            TreeFitCall(X, Y)

\* fit on one of the named scenario tables
TreeFitScenario == \E s \in Scenarios : TreeFitCall(s.X, s.Y)

TreePredictCall(X) ==
    /\ last' = [op |-> "predict", X |-> X, raised |-> DT_predict_raises(dt, X),
                returned |-> IF DT_predict_raises(dt, X) = ""
                             THEN DT_predict(dt, X) ELSE <<>>]
    /\ UNCHANGED <<dt, rf, cv, bt>>

\* predict(X) on the training rows
TreePredictTrain ==
    /\ dt.original_data # <<>>
    /\ dt.tree # <<>>
    /\ TreePredictCall(dt.original_data[1])

TreeNext ==
    \/ TreeConstruct
    \/ TreeFit
    \/ TreeFitScenario
    \/ TreePredictTrain

SpecTree == TreeInit /\ [][TreeNext]_vars

\* ------------------------------------------------ DecisionTree properties
RECURSIVE Leaves(_)
Leaves(node) ==
    IF node.is_leaf THEN {node}
    ELSE Leaves(node.true_branch) \cup Leaves(node.false_branch)

CountOf(l, q) == Cardinality({i \in 1..Len(q) : q[i] = l})

\* l is a most frequent label of the rows of a leaf
IsMajority(l, predictions) ==
    \A l2 \in Range(quality(predictions)) :
        CountOf(l, quality(predictions)) >= CountOf(l2, quality(predictions))

Pure(leaf) == Cardinality(Range(quality(leaf.predictions))) = 1

\* no two rows with identical feature values carry different labels
Separable(X, Y) ==
    \A i, j \in 1..Len(Y) : X.rows[i] = X.rows[j] => Y[i] = Y[j]

\* the last call was a predict, which returned, of a fitted tree on its own
\* training rows
TrainPredicted ==
    /\ last.op = "predict"
    /\ last.raised = ""
    /\ dt.tree # <<>>
    /\ last.X = dt.original_data[1]

TrainX == dt.original_data[1]
TrainY == dt.original_data[2]
Correct == Cardinality({i \in 1..Len(TrainY) : last.returned[i] = TrainY[i]})

C6_TrainingAccuracy ==
    TrainPredicted =>
        /\ \A i \in 1..Len(TrainY) :
              \E leaf \in Leaves(dt.tree[1]) :
                  /\ Merge(TrainX, TrainY).rows[i] \in Range(leaf.predictions.rows)
                  /\ last.returned[i] = leaf.label
                  /\ IsMajority(leaf.label, leaf.predictions)
        /\ Cardinality(Range(TrainY)) * Correct >= Len(TrainY)

\* a fitted tree with a decision node and an impure leaf mispredicts one of
\* its own training rows
C6_Witness ==
    /\ TrainPredicted
    /\ ~dt.tree[1].is_leaf
    /\ \E leaf \in Leaves(dt.tree[1]) : ~Pure(leaf)
    /\ Correct < Len(TrainY)

\* ------------------------------------------------- RandomForest state machine
\* five feature columns and three rows on which four one-column trees vote
\* 0, 1, 1, 0 for the third row
VoteX == [columns |-> <<"a", "b", "c", "d", "e">>,
          rows |-> <<<<1, 1, 1, 1, 1>>, <<2, 2, 2, 2, 1>>, <<1, 2, 2, 1, 1>>>>]
VoteY == <<0, 1, 0>>

KwCounts == {<<>>} \cup {<<n>> : n \in Counts}

ForestInit ==
    /\ dt = NoTree
    /\ rf = NoForest
    /\ cv = Idle
    /\ bt = NoBuild
    /\ last = NoCall

\* RandomForest(**kwargs)
ForestConstruct ==
    /\ \E kw_n_trees \in KwCounts, kw_n_feature_splits \in KwCounts :
          rf' = RF_new(kw_n_trees, kw_n_feature_splits)
    /\ last' = [NoCall EXCEPT !.op = "init"]
    /\ UNCHANGED <<dt, cv, bt>>

\* predict leaves the forest as it is, so the caller's fits are taken before
\* its predicts: a fit after a predict reaches the state the fit before it does
ForestFitCall(X, Y) ==
    /\ last.op # "predict"
    /\ rf' = RF_fit(rf, X, Y)
    /\ last' = [op |-> "fit", X |-> X, raised |-> RF_fit_raises(rf, X, Y),
                returned |-> <<>>]
    /\ UNCHANGED <<dt, cv, bt>>

\* fit(X, Y), on a new forest or on one fitted before
ForestFit ==
    \E F \in 1..Len(ForestColumns), n \in 1..MaxForestRows :
        \E X \in Frames(SubSeq(ForestColumns, 1, F), n), Y \in [1..n -> ForestLabels] :
            ForestFitCall(X, Y)

ForestFitScenario == ForestFitCall(VoteX, VoteY)

ForestPredictCall(X) ==
    /\ last' = [op |-> "predict", X |-> X, raised |-> RF_predict_raises(rf, X),
                returned |-> IF RF_predict_raises(rf, X) = ""
                             THEN RF_predict(rf, X) ELSE <<>>]
    /\ UNCHANGED <<dt, rf, cv, bt>>

\* predict(X) on the training rows
ForestPredictTrain ==
    /\ rf.original_data # <<>>
    /\ ForestPredictCall(rf.original_data[1])

\* predict(X) on one row over the training columns
ForestPredictRow ==
    /\ rf.original_data # <<>>
    /\ \E X \in Frames(rf.original_data[1].columns, 1) : ForestPredictCall(X)

\* predict(X) before any fit
ForestPredictUnfitted ==
    /\ rf.original_data = <<>>
    /\ ForestPredictCall([columns |-> <<"a">>, rows |-> <<<<1>>>>])

ForestNext ==
    \/ ForestConstruct
    \/ ForestFit
    \/ ForestFitScenario
    \/ ForestPredictTrain
    \/ ForestPredictRow
    \/ ForestPredictUnfitted

SpecForest == ForestInit /\ [][ForestNext]_vars

\* ------------------------------------------------ RandomForest properties
\* blocks cuts columns into n contiguous blocks, the first n - 1 of
\* Len(columns) \div n columns each and the last with the remainder as well
IsPartition(blocks, columns, n) ==
    /\ Len(blocks) = n
    /\ Flatten(blocks) = columns
    /\ \A k \in 1..(n - 1) : Len(blocks[k]) = Len(columns) \div n

FitCalled == last.op = "fit"
FitReturned == last.op = "fit" /\ last.raised = ""

\* C1 as stated: fit with n_feature_splits = n >= 1 on F >= n feature columns
\* leaves in splits exactly n contiguous blocks of F // n columns, the
\* remainder folded into the last, every column in exactly one block.
C1_FeaturePartition ==
    (FitCalled /\ rf.n_feature_splits >= 1
               /\ Len(last.X.columns) >= rf.n_feature_splits)
        => /\ last.raised = ""
           /\ IsPartition(rf.splits[1], last.X.columns, rf.n_feature_splits)

\* C2 as stated: RandomForest(n_trees = 1, n_feature_splits = 1).fit succeeds
\* and predict returns for every training row what an unrestricted
\* DecisionTree fitted on the same data returns.
C2_SingleTreeForestIsTree ==
    (FitCalled /\ rf.n_trees = 1 /\ rf.n_feature_splits = 1)
        => /\ last.raised = ""
           /\ RF_predict(rf, last.X)
                = DT_predict(DT_fit(DT_new(<<>>), last.X, rf.original_data[2]), last.X)

\* C3 as stated: with n_feature_splits = 0 fit succeeds and builds n_trees
\* trees, none of them restricted to a feature subset.
C3_NoFeatureRestriction ==
    (FitCalled /\ rf.n_feature_splits = 0)
        => /\ last.raised = ""
           /\ Len(rf.trees[1]) = rf.n_trees
           /\ \A t \in 1..Len(rf.trees[1]) :
                 rf.trees[1][t].features = <<>> /\ rf.trees[1][t].tree # <<>>

\* the forest predicted, with at least one tree
ForestPredicted ==
    /\ last.op = "predict"
    /\ last.raised = ""
    /\ rf.trees # <<>>
    /\ Len(rf.trees[1]) >= 1

\* the trees' predictions for row i of the predicted table, in tree order
Votes(i) == [t \in 1..Len(rf.trees[1]) |-> DT_predict(rf.trees[1][t], last.X)[i]]

HasMostVotes(l, votes) == \A l2 \in Range(votes) : CountOf(l, votes) >= CountOf(l2, votes)

\* the tree whose vote is the first for l
FirstVote(l, votes) == CHOOSE t \in 1..Len(votes) :
    votes[t] = l /\ \A u \in 1..(t - 1) : votes[u] # l

\* the tree whose vote brings l's tally to m
ReachesAt(l, votes, m) == CHOOSE t \in 1..Len(votes) :
    votes[t] = l /\ CountOf(l, SubSeq(votes, 1, t)) = m

\* C7 as stated: predict returns a label with the most votes, and among tied
\* labels the one whose tally first reaches the highest count in tree order.
C7_TieFirstToReach ==
    ForestPredicted =>
        \A i \in 1..Len(last.X.rows) :
            LET votes == Votes(i)
                l == last.returned[i]
            IN  /\ l \in Range(votes)
                /\ HasMostVotes(l, votes)
                /\ \A l2 \in Range(votes) :
                      HasMostVotes(l2, votes) =>
                          ReachesAt(l, votes, CountOf(l, votes))
                              <= ReachesAt(l2, votes, CountOf(l, votes))

\* C7 amended: predict returns a label with the most votes, and among tied
\* labels the one whose first vote comes earliest in tree order.
C7_TieFirstVoted ==
    ForestPredicted =>
        \A i \in 1..Len(last.X.rows) :
            LET votes == Votes(i)
                l == last.returned[i]
            IN  /\ l \in Range(votes)
                /\ HasMostVotes(l, votes)
                /\ \A l2 \in Range(votes) :
                      HasMostVotes(l2, votes) => FirstVote(l, votes) <= FirstVote(l2, votes)

\* four trees voted and two labels tied for the most votes
C7_Witness ==
    /\ ForestPredicted
    /\ Len(rf.trees[1]) = 4
    /\ \E i \in 1..Len(last.X.rows) :
          \E l1, l2 \in Range(Votes(i)) :
              l1 # l2 /\ HasMostVotes(l1, Votes(i)) /\ HasMostVotes(l2, Votes(i))

\* C8 as stated: a fit that raises leaves a fitted forest's trees, splits and
\* original_data as they were before the call.
C8_FitAllOrNothing ==
    [][(/\ rf.trees # <<>>
        /\ Len(rf.trees[1]) >= 1
        /\ last'.op = "fit"
        /\ last'.raised # "")
            => (/\ rf'.trees = rf.trees
                /\ rf'.splits = rf.splits
                /\ rf'.original_data = rf.original_data)]_vars

\* -------------------------------------------- evaluate_algorithm state machine
\* the rows <<x, class>> of the datasets
DataRows == {<<x, c>> : x \in NBValues, c \in Classes}

\* class 0 constant 1.0 and class 1 constant 5.0, three rows each, three folds
ConstantData == <<<<1, 0>>, <<1, 0>>, <<1, 0>>, <<5, 1>>, <<5, 1>>, <<5, 1>>>>

\* both classes with the values 1.0 and 5.0, and a fifth row: left out one row
\* at a time, the training rows of the first four give both classes the same
\* mean, deviation and count
SameData == <<<<1, 0>>, <<5, 0>>, <<1, 1>>, <<5, 1>>, <<1, 0>>>>

\* class 0 around 2.0 and class 1 around 6.0
ApartData == <<<<1, 0>>, <<3, 0>>, <<5, 1>>, <<7, 1>>, <<6, 1>>>>

\* the frame of evaluate_algorithm(dataset, naive_bayes, n_folds) as it calls
\* cross_validation_split
Start(dataset, n_folds) ==
    [pc |-> "split", input |-> dataset, dataset |-> dataset, n_folds |-> n_folds,
     dataset_copy |-> Copy(dataset), dataset_split |-> <<>>, fold |-> <<>>,
     train_set |-> <<>>, test_set |-> <<>>, predicted |-> <<>>,
     scores |-> <<>>, raised |-> ""]

CVInit ==
    /\ dt = NoTree
    /\ rf = NoForest
    /\ bt = NoBuild
    /\ last = NoCall
    /\ \/ \E n \in 1..MaxData, n_folds \in 1..MaxFolds :
             \E dataset \in [1..n -> DataRows] : cv = Start(dataset, n_folds)
       \/ cv = Start(ConstantData, 3)
       \/ \E dataset \in {SameData, ApartData} : cv = Start(dataset, 5)

\* index = randrange(len(dataset_copy)); fold.append(dataset_copy.pop(index))
CVPop ==
    /\ cv.pc = "split"
    /\ Len(cv.dataset_split) < cv.n_folds
    /\ Len(cv.fold) < fold_size(cv.dataset, cv.n_folds)
    /\ \E index \in 1..Len(cv.dataset_copy) :
          cv' = [cv EXCEPT !.fold = Append(@, pop(cv.dataset_copy, index).item),
                           !.dataset_copy = pop(cv.dataset_copy, index).rest]
    /\ UNCHANGED <<dt, rf, bt, last>>

\* dataset_split.append(fold), once the fold is full
CVAppendFold ==
    /\ cv.pc = "split"
    /\ Len(cv.dataset_split) < cv.n_folds
    /\ ~(Len(cv.fold) < fold_size(cv.dataset, cv.n_folds))
    /\ cv' = [cv EXCEPT !.dataset_split = Append(@, cv.fold), !.fold = <<>>]
    /\ UNCHANGED <<dt, rf, bt, last>>

\* return dataset_split: folds = cross_validation_split(dataset, n_folds)
CVReturnSplit ==
    /\ cv.pc = "split"
    /\ Len(cv.dataset_split) = cv.n_folds
    /\ cv' = [cv EXCEPT !.pc = "evaluate"]
    /\ UNCHANGED <<dt, rf, bt, last>>

\* one pass of `for fold in folds`
CVEvalFold ==
    /\ cv.pc = "evaluate"
    /\ Len(cv.scores) < cv.n_folds
    /\ LET folds == cv.dataset_split
           fold == folds[Len(cv.scores) + 1]
           train_set == Rows(Concat(Remove(folds, fold)))
           test_set == TestSet(fold)
           raised == EvalFoldRaises(folds, fold)
       IN  cv' = IF raised # ""
                 THEN [cv EXCEPT !.pc = "raised", !.raised = raised,
                                 !.train_set = train_set, !.test_set = test_set,
                                 !.predicted = <<>>]
                 ELSE [cv EXCEPT !.train_set = train_set, !.test_set = test_set,
                                 !.predicted = naive_bayes(train_set, test_set),
                                 !.scores = Append(@, accuracy_metric(Actual(fold),
                                                naive_bayes(train_set, test_set)))]
    /\ UNCHANGED <<dt, rf, bt, last>>

\* return scores
CVReturn ==
    /\ cv.pc = "evaluate"
    /\ Len(cv.scores) = cv.n_folds
    /\ cv' = [cv EXCEPT !.pc = "done"]
    /\ UNCHANGED <<dt, rf, bt, last>>

CVNext ==
    \/ CVPop
    \/ CVAppendFold
    \/ CVReturnSplit
    \/ CVEvalFold
    \/ CVReturn

SpecCV == CVInit /\ [][CVNext]_vars

\* ------------------------------------------------- evaluate_algorithm properties
\* cross_validation_split has returned its folds
SplitReturned == cv.pc # "split"

\* the row objects of all folds
Dealt == Flatten(cv.dataset_split)

DealtPos == {Dealt[i].pos : i \in 1..Len(Dealt)}

\* the body of the loop has run for at least one fold
FoldEvaluated == cv.pc = "raised" \/ Len(cv.scores) > 0

\* some class of the training rows has at least two rows, all with the same
\* feature value: its standard deviation is 0
ConstantClass(train) ==
    \E c \in Classes :
        LET rows == RowsOfClass(train, c)
        IN  /\ Len(rows) >= 2
            /\ \A i, j \in 1..Len(rows) : rows[i][1] = rows[j][1]

Divisible == Len(cv.dataset) % cv.n_folds = 0

\* C4: when a class of the training set has a constant feature column, the
\* fold is evaluated without a division-by-zero fault and naive_bayes returns
\* a class for every test row.
C4_ZeroVarianceHandled ==
    (FoldEvaluated /\ ConstantClass(cv.train_set)) =>
        /\ cv.raised = ""
        /\ Len(cv.predicted) = Len(cv.test_set)
        /\ \A i \in 1..Len(cv.predicted) : cv.predicted[i] \in Classes

\* C9: cross_validation_split returns exactly n_folds folds of N \div n_folds
\* rows each, every row taken from the dataset, no row position dealt twice,
\* exactly N % n_folds positions in no fold, and the dataset as it was passed.
C9_FoldsPartition ==
    SplitReturned =>
        /\ Len(cv.dataset_split) = cv.n_folds
        /\ \A f \in 1..Len(cv.dataset_split) :
              Len(cv.dataset_split[f]) = Len(cv.dataset) \div cv.n_folds
        /\ \A i \in 1..Len(Dealt) :
              /\ Dealt[i].pos \in 1..Len(cv.dataset)
              /\ Dealt[i].row = cv.dataset[Dealt[i].pos]
        /\ Cardinality(DealtPos) = Len(Dealt)
        /\ Cardinality((1..Len(cv.dataset)) \ DealtPos)
              = Len(cv.dataset) % cv.n_folds
        /\ cv.dataset = cv.input

\* the split of three rows into two folds has returned: one row is left over
C9_Witness ==
    /\ SplitReturned
    /\ Len(cv.dataset) = 3
    /\ cv.n_folds = 2
    /\ Len(Dealt) = 2

\* C10: on a dataset whose length is a multiple of n_folds, evaluate_algorithm
\* raises nothing and returns exactly n_folds accuracies, each a percentage
\* between 0 and 100.
C10_FoldAccuracies ==
    Divisible =>
        /\ cv.pc # "raised"
        /\ cv.pc = "done" =>
              /\ Len(cv.scores) = cv.n_folds
              /\ \A i \in 1..Len(cv.scores) :
                    /\ RatGeq(cv.scores[i], RatZero)
                    /\ RatGeq(<<100, 1>>, cv.scores[i])

\* ------------------------------------- DecisionTree.__build_tree, call by call
\* the frame of a call of __build_tree(data) as it starts
Call(data) ==
    [pc |-> "start", data |-> data, split_point |-> <<>>,
     true_data |-> <<>>, false_data |-> <<>>, true_branch |-> <<>>]

\* the frame on top of the stack and the frames below it
Top == Head(bt.stack)
Below == Tail(bt.stack)

\* what __best_split returned in the call on top, and the kind and the
\* split_point of the node the call goes on to make
Step(data, best, node) ==
    [data |-> data, split_point |-> best[1], gain |-> best[2],
     is_leaf |-> node.is_leaf,
     node_split |-> IF node.is_leaf THEN <<>> ELSE node.split_point]

BuildInit ==
    /\ dt = NoTree
    /\ rf = NoForest
    /\ cv = Idle
    /\ bt = NoBuild
    /\ last = NoCall

\* DecisionTree(**kwargs), before any fit
BuildConstruct ==
    /\ last.op = "none"
    /\ \E features \in {<<>>} \cup {<<fl>> : fl \in FeatureLists} :
          dt' = DT_new(features)
    /\ last' = [NoCall EXCEPT !.op = "init"]
    /\ UNCHANGED <<rf, cv, bt>>

\* fit(X, Y) up to the call self.__build_tree(data), or up to the KeyError
BuildFitCall(X, Y) ==
    /\ dt.original_data = <<>>
    /\ bt = NoBuild
    /\ dt' = [dt EXCEPT !.original_data = <<X, Y>>]
    /\ bt' = IF DT_fit_raises(dt, X, Y) # "" THEN bt
             ELSE [NoBuild EXCEPT !.stack = <<Call(Merge(X, Y))>>]
    /\ last' = [op |-> "fit", X |-> X, raised |-> DT_fit_raises(dt, X, Y),
                returned |-> <<>>]
    /\ UNCHANGED <<rf, cv>>

BuildFit ==
    \E F \in 1..Len(TreeColumns), n \in 1..MaxRows :
        \E X \in Frames(SubSeq(TreeColumns, 1, F), n), Y \in [1..n -> BuildLabels] :
            BuildFitCall(X, Y)

BuildFitScenario == \E s \in Scenarios : BuildFitCall(s.X, s.Y)

\* gain == 0: return Node(True, predictions=data)
BuildLeaf ==
    /\ bt.stack # <<>>
    /\ Top.pc = "start"
    /\ LET best == best_split(dt.features, Top.data)
       IN  /\ best[2] = RatZero
           /\ bt' = [stack |-> Below, ret |-> <<Leaf(Top.data)>>,
                     step |-> <<Step(Top.data, best, Leaf(Top.data))>>]
    /\ UNCHANGED <<dt, rf, cv, last>>

\* gain != 0: split the data and call __build_tree(true_data)
BuildSplit ==
    /\ bt.stack # <<>>
    /\ Top.pc = "start"
    /\ LET best == best_split(dt.features, Top.data)
           branches == split(Top.data, best[1][1], best[1][2])
       IN  /\ best[2] # RatZero
           /\ bt' = [stack |-> <<Call(branches[1]),
                                 [Top EXCEPT !.pc = "true",
                                             !.split_point = best[1],
                                             !.true_data = branches[1],
                                             !.false_data = branches[2]]>>
                               \o Below,
                     ret |-> <<>>,
                     step |-> <<Step(Top.data, best,
                                     Decision(<<>>, <<>>, best[1]))>>]
    /\ UNCHANGED <<dt, rf, cv, last>>

\* true_branch has returned: call __build_tree(false_data)
BuildFalse ==
    /\ bt.stack # <<>>
    /\ Top.pc = "true"
    /\ bt.ret # <<>>
    /\ bt' = [bt EXCEPT !.stack = <<Call(Top.false_data),
                                    [Top EXCEPT !.pc = "false",
                                                !.true_branch = bt.ret[1]]>>
                                  \o Below,
                        !.ret = <<>>]
    /\ UNCHANGED <<dt, rf, cv, last>>

\* false_branch has returned: return Node(False, true_branch, false_branch, split_point)
BuildDecision ==
    /\ bt.stack # <<>>
    /\ Top.pc = "false"
    /\ bt.ret # <<>>
    /\ bt' = [bt EXCEPT !.stack = Below,
                        !.ret = <<Decision(Top.true_branch, bt.ret[1],
                                           Top.split_point)>>]
    /\ UNCHANGED <<dt, rf, cv, last>>

\* self.tree = the node the outermost call returned; fit returns
BuildReturn ==
    /\ bt.stack = <<>>
    /\ bt.ret # <<>>
    /\ dt' = [dt EXCEPT !.tree = bt.ret]
    /\ bt' = [bt EXCEPT !.ret = <<>>]
    /\ UNCHANGED <<rf, cv, last>>

\* the steps of a running fit
BuildRun ==
    \/ BuildLeaf
    \/ BuildSplit
    \/ BuildFalse
    \/ BuildDecision
    \/ BuildReturn

BuildNext ==
    \/ BuildConstruct
    \/ BuildFit
    \/ BuildFitScenario
    \/ BuildRun

\* a call of __build_tree is about to run __best_split; this is when
\* BuildLeaf or BuildSplit is enabled
Starting == bt.stack # <<>> /\ Top.pc = "start"

\* the interpreter keeps executing a running fit: weak fairness of each step,
\* for BuildLeaf \/ BuildSplit with its enabling condition written out
BuildFair ==
    /\ []<>(~Starting) \/ []<><<BuildLeaf \/ BuildSplit>>_vars
    /\ WF_vars(BuildFalse)
    /\ WF_vars(BuildDecision)
    /\ WF_vars(BuildReturn)

SpecBuild == BuildInit /\ [][BuildNext]_vars /\ BuildFair

\* ------------------------------------------------- __build_tree properties
\* how many times row r occurs among rows
Occurrences(rows, r) == Cardinality({i \in 1..Len(rows) : rows[i] = r})

\* the call of frame f recursed on two non-empty tables, each of fewer rows
\* than its own, which together hold exactly its rows
Shrinks(f) ==
    /\ Len(f.true_data.rows) > 0
    /\ Len(f.false_data.rows) > 0
    /\ Len(f.true_data.rows) < Len(f.data.rows)
    /\ Len(f.false_data.rows) < Len(f.data.rows)
    /\ Len(f.true_data.rows) + Len(f.false_data.rows) = Len(f.data.rows)
    /\ \A r \in Range(f.data.rows) :
          Occurrences(f.data.rows, r)
             = Occurrences(f.true_data.rows, r) + Occurrences(f.false_data.rows, r)

\* every call on the stack that has recursed
AllShrink ==
    \A i \in 1..Len(bt.stack) : bt.stack[i].pc # "start" => Shrinks(bt.stack[i])

Building == bt.stack # <<>>
Built == bt.stack = <<>> /\ bt.ret = <<>> /\ dt.tree # <<>>

\* C11: every call of __build_tree that recurses does so on two non-empty
\* branches of strictly fewer rows that together are its rows, and every
\* fit that calls __build_tree gets its tree back.
C11_BuildTerminates == []AllShrink /\ (Building ~> Built)

\* a fit has returned a tree two decisions deep
C11_Witness ==
    /\ Built
    /\ ~dt.tree[1].is_leaf
    /\ (~dt.tree[1].true_branch.is_leaf \/ ~dt.tree[1].false_branch.is_leaf)

\* ------------------------------------------------- __best_split properties
\* the last build step
LastStep == bt.step[1]

\* the columns the search may split on
CandidateFeatures(data) ==
    {f \in Range(data.columns) :
        /\ f # "quality"
        /\ dt.features # <<>> => f \in Range(dt.features[1])}

ValuesOf(data, f) ==
    {data.rows[i][IndexOf(data.columns, f)] : i \in 1..Len(data.rows)}

\* the splits with a row on either side
NonDegenerate(data) ==
    {c \in UNION {{<<f, v>> : v \in ValuesOf(data, f)} : f \in CandidateFeatures(data)} :
        /\ \E i \in 1..Len(data.rows) : data.rows[i][IndexOf(data.columns, c[1])] >= c[2]
        /\ \E i \in 1..Len(data.rows) : data.rows[i][IndexOf(data.columns, c[1])] < c[2]}

GainOf(data, c) ==
    info_gain(split(data, c[1], c[2])[1], split(data, c[1], c[2])[2], gini(data))

\* the first row of data holding value v in column f
FirstRow(data, f, v) ==
    CHOOSE i \in 1..Len(data.rows) :
        /\ data.rows[i][IndexOf(data.columns, f)] = v
        /\ \A j \in 1..(i - 1) : data.rows[j][IndexOf(data.columns, f)] # v

\* the loops of the search reach c before d: an earlier column, or the same
\* column and a value first seen in an earlier row
Before(data, c, d) ==
    \/ IndexOf(data.columns, c[1]) < IndexOf(data.columns, d[1])
    \/ /\ c[1] = d[1]
       /\ FirstRow(data, c[1], c[2]) < FirstRow(data, d[1], d[2])

\* C12: a build step selects no split when none has a row on either side, and
\* otherwise a split on a candidate feature at one of its values in the rows,
\* with a row on either side, of maximum gain, the last such in iteration
\* order; it makes a Leaf exactly when that gain is 0 and otherwise a Decision
\* node on the selected split.
C12_BestSplit ==
    bt.step # <<>> =>
        LET data == LastStep.data
            sp == LastStep.split_point
        IN  /\ (sp = <<>>) = (NonDegenerate(data) = {})
            /\ sp = <<>> => LastStep.gain = RatZero
            /\ sp # <<>> =>
                  /\ sp \in NonDegenerate(data)
                  /\ LastStep.gain = GainOf(data, sp)
                  /\ \A c \in NonDegenerate(data) :
                        /\ RatGeq(LastStep.gain, GainOf(data, c))
                        /\ GainOf(data, c) = LastStep.gain =>
                              c = sp \/ Before(data, c, sp)
            /\ LastStep.is_leaf = (LastStep.gain = RatZero)
            /\ ~LastStep.is_leaf => LastStep.node_split = sp

\* a step made a Decision node on the later of two thresholds of one column
\* that have the same, best gain, and the later one is the smaller value
C12_Witness ==
    /\ bt.step # <<>>
    /\ ~LastStep.is_leaf
    /\ \E c \in NonDegenerate(LastStep.data) :
          /\ c[1] = LastStep.split_point[1]
          /\ c[2] > LastStep.split_point[2]
          /\ GainOf(LastStep.data, c) = LastStep.gain

\* ---------------------------------------------------------- predict properties
\* the latest fold was evaluated and its predictions returned
FoldPredicted == Len(cv.scores) > 0 /\ cv.pc # "raised"

\* the <<class, score>> pairs of test row i of the latest fold, in the
\* iteration order of the summaries of its training rows
ScoresOf(i) ==
    calculate_class_probabilities(summarize_by_class(cv.train_set), cv.test_set[i])

\* C13: predict returns a class of summaries whose score no class exceeds and
\* no class earlier in the iteration order of summaries equals.
C13_PredictFirstMax ==
    FoldPredicted =>
        \A i \in 1..Len(cv.predicted) :
            ScoresOf(i) # <<>> =>
                \E k \in 1..Len(ScoresOf(i)) :
                    /\ cv.predicted[i] = ScoresOf(i)[k][1]
                    /\ \A j \in 1..Len(ScoresOf(i)) :
                          /\ ScoresOf(i)[j][2] <= ScoresOf(i)[k][2]
                          /\ j < k => ScoresOf(i)[j][2] < ScoresOf(i)[k][2]

\* two classes with the same, positive score, class 1 met first and returned
C13_Witness ==
    /\ FoldPredicted
    /\ \E i \in 1..Len(cv.predicted) :
          /\ Len(ScoresOf(i)) = 2
          /\ ScoresOf(i)[1][2] = ScoresOf(i)[2][2]
          /\ ScoresOf(i)[1][2] > 0
          /\ ScoresOf(i)[1][1] = 1
          /\ cv.predicted[i] = 1

====
